---- MODULE Spec2Model ----
(***************************************************************************)
(* Model of secscan.py: a command-line utility that checks that it runs    *)
(* from the top level of a git repository, probes for gitleaks and         *)
(* pre-commit, and then writes .pre-commit-config.yaml (backing up an      *)
(* existing file) and runs "pre-commit install".                           *)
(*                                                                         *)
(* Text is modelled as a sequence of atoms (short strings); " " and "\n"   *)
(* are the whitespace atoms.  A configuration file is a sequence of lines, *)
(* a line a sequence of words, a word a sequence of atoms.                 *)
(***************************************************************************)
EXTENDS Integers, Sequences, FiniteSets, TLC

\* ------------------------------------------------------------------ bounds
MaxRuns == 3
MaxTick == 2

\* UTC instant of the first run, in seconds since 1970-01-01T00:00:00Z:
\* one second before midnight, so that ticks and offsets cross a day.
Clock0 == 86399

\* Offsets (seconds) between the host's local clock and UTC.
TzOffsets == {0 - 3600, 0, 3600}

\* ------------------------------------------------------------ text helpers
IsSpace(a) ==
  a \in {" ", "\n"}

RECURSIVE LStrip(_)
LStrip(s) ==
  IF s # <<>> /\ IsSpace(Head(s)) THEN LStrip(Tail(s)) ELSE s

RECURSIVE RStrip(_)
RStrip(s) ==
  IF s # <<>> /\ IsSpace(s[Len(s)]) THEN RStrip(SubSeq(s, 1, Len(s) - 1)) ELSE s

\* str.strip()
Strip(s) ==
  RStrip(LStrip(s))

\* str.split(): split on runs of whitespace, no empty fields
RECURSIVE SplitWsAcc(_, _, _)
SplitWsAcc(s, cur, acc) ==
  IF s = <<>>
    THEN IF cur = <<>> THEN acc ELSE Append(acc, cur)
    ELSE IF IsSpace(Head(s))
      THEN SplitWsAcc(Tail(s), <<>>, IF cur = <<>> THEN acc ELSE Append(acc, cur))
      ELSE SplitWsAcc(Tail(s), Append(cur, Head(s)), acc)

SplitWs(s) ==
  SplitWsAcc(s, <<>>, <<>>)

\* str.split(" "): split at every single space, empty fields kept
RECURSIVE SplitSpAcc(_, _, _)
SplitSpAcc(s, cur, acc) ==
  IF s = <<>>
    THEN Append(acc, cur)
    ELSE IF Head(s) = " "
      THEN SplitSpAcc(Tail(s), <<>>, Append(acc, cur))
      ELSE SplitSpAcc(Tail(s), Append(cur, Head(s)), acc)

SplitSp(s) ==
  SplitSpAcc(s, <<>>, <<>>)

\* str.removeprefix("v")
RemovePrefixV(w) ==
  IF w # <<>> /\ Head(w) = "v" THEN Tail(w) ELSE w

\* Path.resolve(): /link is a symbolic link to /repo
Resolve(path) ==
  IF path = <<"/link">> THEN <<"/repo">> ELSE path

\* --------------------------------------------------------------- the world
Dirs == {<<"/repo">>, <<"/repo/sub">>}

\* outcomes of `git rev-parse --show-toplevel`
GitResults ==
  {[rc |-> 128, stdout |-> <<>>],
   [rc |-> 0, stdout |-> <<"/repo", "\n">>],
   [rc |-> 0, stdout |-> <<"/link", "\n">>]}

GitleaksOutputs ==
  {<<"8", "\n">>, <<"v", "8", "\n">>, <<"v", "9", "\n">>, <<>>}

PreCommitOutputs ==
  {<<"pre-commit", " ", "3", "\n">>, <<"pre-commit", "\n">>}

\* a tool: absent from the search path, present with a failing version
\* command, or present with a version command that prints something
ToolStates(outputs) ==
  {[which |-> FALSE, rc |-> 127, stdout |-> <<>>],
   [which |-> TRUE, rc |-> 1, stdout |-> <<>>]}
  \cup {[which |-> TRUE, rc |-> 0, stdout |-> o] : o \in outputs}

Envs ==
  [gitleaks : ToolStates(GitleaksOutputs), precommit : ToolStates(PreCommitOutputs)]

NoTool == [which |-> FALSE, rc |-> 127, stdout |-> <<>>]

NoEnv == [gitleaks |-> NoTool, precommit |-> NoTool]

NoGit == [rc |-> 128, stdout |-> <<>>]

W(a) == <<a>>

\* variant: the template names another hook id
pre_commit_config_WrongId(version) ==
  << <<W("repos:")>>,
     <<W("-"), W("repo:"), W("https://github.com/gitleaks/gitleaks")>>,
     <<W("rev:"), <<"v">> \o version>>,
     <<W("hooks:")>>,
     <<W("-"), W("id:"), W("detect-secrets")>> >>

\* the f-string of config_secscan
pre_commit_config(version) ==
  << <<W("repos:")>>,
     <<W("-"), W("repo:"), W("https://github.com/gitleaks/gitleaks")>>,
     <<W("rev:"), <<"v">> \o version>>,
     <<W("hooks:")>>,
     <<W("-"), W("id:"), W("gitleaks")>> >>

OtherHooks ==
  << <<W("repos:")>>,
     <<W("-"), W("repo:"), W("https://github.com/pre-commit/pre-commit-hooks")>>,
     <<W("rev:"), <<"v", "4">>>>,
     <<W("hooks:")>>,
     <<W("-"), W("id:"), W("trailing-whitespace")>> >>

\* the contents .pre-commit-config.yaml may have before the first run
InitialTexts ==
  {OtherHooks,
   <<>>,
   Append(OtherHooks, <<W("#"), W("id:"), W("gitleaks")>>),
   pre_commit_config(<<"7">>),
   pre_commit_config(<<"8">>)}

Absent == [exists |-> FALSE, text |-> <<>>]

File(text) == [exists |-> TRUE, text |-> text]

\* `"id: gitleaks" in config_content`: a word "id:" followed by a word that
\* starts with "gitleaks", anywhere in the text
ContainsIdGitleaks(text) ==
  \E l \in 1..Len(text) :
    \E i \in 1..(Len(text[l]) - 1) :
      /\ text[l][i] = W("id:")
      /\ text[l][i + 1] # <<>>
      /\ Head(text[l][i + 1]) = "gitleaks"

\* datetime.strftime("%Y%m%dT%H%M%SZ") of a naive time given in seconds
\* since 1970-01-01T00:00:00; dates within January 1970
strftime(t) ==
  <<1970, 1, (t \div 86400) + 1, "T",
    (t % 86400) \div 3600, (t % 3600) \div 60, t % 60, "Z">>

\* --------------------------------------------------------- check_in_repo
check_in_repo(dir, g) ==
  IF g.rc # 0
    THEN FALSE
    ELSE Resolve(dir) = Resolve(Strip(g.stdout))

\* --------------------------------------------------------- check_commands
ToolStatus(s, v) == [status |-> s, version |-> v]

BothMissing ==
  [gitleaks |-> ToolStatus(FALSE, <<>>), precommit |-> ToolStatus(FALSE, <<>>)]

Returned(r) == [raised |-> FALSE, value |-> r]

IndexError == [raised |-> TRUE, value |-> BothMissing]

\* lines 47-54
probe_gitleaks(t) ==
  IF t.rc # 0
    THEN Returned(ToolStatus(FALSE, <<>>))
    ELSE LET words == SplitWs(Strip(t.stdout))
         IN  IF words = <<>>
               THEN [raised |-> TRUE, value |-> ToolStatus(TRUE, <<>>)]
               ELSE Returned(ToolStatus(TRUE, RemovePrefixV(words[1])))

\* lines 62-69
probe_pre_commit(t) ==
  IF t.rc # 0
    THEN Returned(ToolStatus(FALSE, <<>>))
    ELSE LET words == SplitSp(Strip(t.stdout))
         IN  IF Len(words) < 2
               THEN [raised |-> TRUE, value |-> ToolStatus(TRUE, <<>>)]
               ELSE Returned(ToolStatus(TRUE, words[2]))

check_commands(e) ==
  IF ~e.gitleaks.which
    THEN Returned(BothMissing)
    ELSE LET gl == probe_gitleaks(e.gitleaks)
         IN  IF gl.raised
               THEN IndexError
               ELSE IF ~e.precommit.which
                 THEN Returned(BothMissing)
                 ELSE LET pcm == probe_pre_commit(e.precommit)
                      IN  IF pcm.raised
                            THEN IndexError
                            ELSE Returned([gitleaks |-> gl.value,
                                           precommit |-> pcm.value])

\* variant: the two statuses combined with `or`
ToolsOk_Or(r) ==
  r.gitleaks.status \/ r.precommit.status

\* __main__, line 147
ToolsOk(r) ==
  r.gitleaks.status /\ r.precommit.status

\* ------------------------------------------------------------------ state
VARIABLES
  pc,               \* position of the current run
  runs,             \* number of invocations so far
  mode,             \* "setup" or "dry-run"
  cwd,              \* working directory of the run
  git,              \* what git rev-parse answered in this run
  env,              \* tool availability seen by this run
  probed,           \* check_commands was called in this run
  raised,           \* the run died of an uncaught exception ("" if none)
  commands_status,  \* value returned by check_commands
  gitleaks_version,
  pre_commit_version,
  now,              \* UTC clock, seconds
  utcoffset,        \* local time minus UTC, seconds
  t_utc,            \* UTC instant at which the run computed its timestamp
  backup_path,      \* <<directory, name prefix, timestamp>>, <<>> if not computed
  cfg,              \* .pre-commit-config.yaml
  backups,          \* backup files: path -> content
  cfg0,             \* cfg when the run started
  backups0,         \* backups when the run started
  effects,          \* side effects of the run, in order
  out,              \* messages printed by the run
  install_rc,       \* return code of "pre-commit install", -1 if not invoked
  exitCode          \* -1 while running

vars ==
  <<pc, runs, mode, cwd, git, env, probed, raised, commands_status,
    gitleaks_version, pre_commit_version, now, utcoffset, t_utc, backup_path,
    cfg, backups, cfg0, backups0, effects, out, install_rc, exitCode>>

fsVars == <<cfg, backups>>

probeVars == <<env, probed, commands_status, gitleaks_version, pre_commit_version>>

pathVars == <<t_utc, backup_path>>

runVars == <<runs, mode, cwd, cfg0, backups0, utcoffset>>

EmptyBackups == [q \in {} |-> <<>>]

Init ==
  /\ pc = "idle"
  /\ runs = 0
  /\ mode = "setup"
  /\ cwd = <<"/repo">>
  /\ git = NoGit
  /\ env = NoEnv
  /\ probed = FALSE
  /\ raised = ""
  /\ commands_status = BothMissing
  /\ gitleaks_version = <<>>
  /\ pre_commit_version = <<>>
  /\ now = Clock0
  /\ utcoffset \in TzOffsets
  /\ t_utc = Clock0
  /\ backup_path = <<>>
  /\ cfg \in {Absent} \cup {File(t) : t \in InitialTexts}
  /\ backups = EmptyBackups
  /\ cfg0 = cfg
  /\ backups0 = backups
  /\ effects = <<>>
  /\ out = <<>>
  /\ install_rc = -1
  /\ exitCode = -1

\* sys.exit(code), or death by an uncaught exception
Exit(code, exc) ==
  /\ pc' = "exit"
  /\ exitCode' = code
  /\ raised' = exc

\* --------------------------------------------------------------- actions
\* the user starts the script with --setup or --dry-run
Invoke ==
  /\ pc \in {"idle", "exit"}
  /\ runs < MaxRuns
  /\ runs' = runs + 1
  /\ mode' \in {"setup", "dry-run"}
  /\ cwd' \in Dirs
  /\ pc' = "check_in_repo"
  /\ git' = NoGit
  /\ env' = NoEnv
  /\ probed' = FALSE
  /\ raised' = ""
  /\ commands_status' = BothMissing
  /\ gitleaks_version' = <<>>
  /\ pre_commit_version' = <<>>
  /\ t_utc' = now
  /\ backup_path' = <<>>
  /\ cfg0' = cfg
  /\ backups0' = backups
  /\ effects' = <<>>
  /\ out' = <<>>
  /\ install_rc' = -1
  /\ exitCode' = -1
  /\ UNCHANGED <<now, utcoffset, cfg, backups>>

\* the wall clock advances
Tick ==
  /\ now < Clock0 + MaxTick
  /\ now' = now + 1
  /\ UNCHANGED <<pc, runs, mode, cwd, git, env, probed, raised, commands_status,
                 gitleaks_version, pre_commit_version, utcoffset, t_utc,
                 backup_path, cfg, backups, cfg0, backups0, effects, out,
                 install_rc, exitCode>>

\* __main__, lines 137-140
MainCheckInRepo ==
  /\ pc = "check_in_repo"
  /\ \E g \in GitResults :
       /\ git' = g
       /\ IF ~check_in_repo(cwd, g)
            THEN /\ out' = Append(out, "not-at-top-level")
                 /\ Exit(1, "")
            ELSE /\ out' = out
                 /\ pc' = "check_commands"
                 /\ UNCHANGED <<exitCode, raised>>
  /\ UNCHANGED <<runVars, probeVars, pathVars, fsVars, now, effects, install_rc>>

\* __main__, lines 142-153
MainCheckCommands ==
  /\ pc = "check_commands"
  /\ \E e \in Envs :
       LET r == check_commands(e)
           status == ToolsOk(r.value)
       IN  /\ env' = e
           /\ probed' = TRUE
           /\ IF r.raised
                THEN /\ Exit(1, "IndexError")
                     /\ UNCHANGED <<commands_status, gitleaks_version,
                                    pre_commit_version, out>>
                ELSE /\ commands_status' = r.value
                     /\ gitleaks_version' = r.value.gitleaks.version
                     /\ pre_commit_version' = r.value.precommit.version
                     /\ IF ~status
                          THEN /\ out' = Append(out, "missing-tools")
                               /\ Exit(1, "")
                          ELSE /\ out' = out
                               /\ pc' = "config_secscan"
                               /\ UNCHANGED <<exitCode, raised>>
  /\ UNCHANGED <<runVars, git, pathVars, fsVars, now, effects, install_rc>>

\* lines 90-92
BackupPath ==
  <<cwd, ".pre-commit-config.yaml-", strftime(now + utcoffset)>>

\* variant: the dry-run block lacks its `return` and falls into the real path
DryRun_NoReturn ==
  /\ pc = "config_secscan"
  /\ mode = "dry-run"
  /\ backup_path' = BackupPath
  /\ t_utc' = now
  /\ out' = Append(out, "dry:would-install")
  /\ pc' = IF cfg.exists
             THEN IF ContainsIdGitleaks(cfg.text) THEN "install_only" ELSE "move"
             ELSE "write"
  /\ UNCHANGED <<runVars, git, probeVars, fsVars, now, effects, install_rc,
                 exitCode, raised>>

\* config_secscan(dry_run=True), lines 83-109, and sys.exit(0) of line 157
DryRun ==
  /\ pc = "config_secscan"
  /\ mode = "dry-run"
  /\ backup_path' = BackupPath
  /\ t_utc' = now
  /\ out' = out \o
       (IF cfg.exists
          THEN IF ContainsIdGitleaks(cfg.text)
                 THEN <<"dry:already-configured", "dry:would-install">>
                 ELSE <<"dry:would-move", "dry:would-write">>
          ELSE <<"dry:would-write">>)
       \o <<"dry:would-install">>
  /\ Exit(0, "")
  /\ UNCHANGED <<runVars, git, probeVars, fsVars, now, effects, install_rc>>

\* variant: the test for the hook is negated
SetupBranch_Inverted ==
  /\ pc = "config_secscan"
  /\ mode = "setup"
  /\ backup_path' = BackupPath
  /\ t_utc' = now
  /\ IF cfg.exists
       THEN IF ~ContainsIdGitleaks(cfg.text)
              THEN /\ out' = Append(out, "already-configured")
                   /\ pc' = "install_only"
              ELSE /\ out' = out
                   /\ pc' = "move"
       ELSE /\ out' = out
            /\ pc' = "write"
  /\ UNCHANGED <<runVars, git, probeVars, fsVars, now, effects, install_rc,
                 exitCode, raised>>

\* config_secscan(dry_run=False), lines 83-92 and the tests of lines 111-113
SetupBranch ==
  /\ pc = "config_secscan"
  /\ mode = "setup"
  /\ backup_path' = BackupPath
  /\ t_utc' = now
  /\ IF cfg.exists
       THEN IF ContainsIdGitleaks(cfg.text)
              THEN /\ out' = Append(out, "already-configured")
                   /\ pc' = "install_only"
              ELSE /\ out' = out
                   /\ pc' = "move"
       ELSE /\ out' = out
            /\ pc' = "write"
  /\ UNCHANGED <<runVars, git, probeVars, fsVars, now, effects, install_rc,
                 exitCode, raised>>

\* variant: the existing file is removed instead of renamed
Move_Unlink ==
  /\ pc = "move"
  /\ backups' = backups
  /\ cfg' = Absent
  /\ effects' = Append(effects, "rename")
  /\ out' = Append(out, "moved")
  /\ pc' = "write"
  /\ UNCHANGED <<runVars, git, probeVars, pathVars, now, install_rc, exitCode, raised>>

\* shutil.move(p, backup_path), lines 119-120
Move ==
  /\ pc = "move"
  /\ backups' = (backup_path :> cfg.text) @@ backups
  /\ cfg' = Absent
  /\ effects' = Append(effects, "rename")
  /\ out' = Append(out, "moved")
  /\ pc' = "write"
  /\ UNCHANGED <<runVars, git, probeVars, pathVars, now, install_rc, exitCode, raised>>

\* p.write_text(pre_commit_config), lines 122-123
Write ==
  /\ pc = "write"
  /\ cfg' = File(pre_commit_config(gitleaks_version))
  /\ effects' = Append(effects, "write")
  /\ out' = Append(out, "wrote")
  /\ pc' = "install"
  /\ UNCHANGED <<runVars, git, probeVars, pathVars, backups, now, install_rc,
                 exitCode, raised>>

\* variant: check=True is missing, the return code is ignored
RunInstall_NoCheck(rc, message) ==
  /\ effects' = Append(effects, "install")
  /\ install_rc' = rc
  /\ out' = Append(out, message)
  /\ Exit(0, "")

\* subprocess.run(["pre-commit", "install"], check=True) and what follows it
RunInstall(rc, message) ==
  /\ effects' = Append(effects, "install")
  /\ install_rc' = rc
  /\ IF rc # 0
       THEN /\ out' = out
            /\ Exit(1, "CalledProcessError")
       ELSE /\ out' = Append(out, message)
            /\ Exit(0, "")

\* variant: the `return` of line 118 is missing
InstallOnly_NoReturn ==
  /\ pc = "install_only"
  /\ \E rc \in {0, 1} :
       /\ effects' = Append(effects, "install")
       /\ install_rc' = rc
       /\ IF rc # 0
            THEN /\ out' = out
                 /\ Exit(1, "CalledProcessError")
            ELSE /\ out' = Append(out, "hooks-installed")
                 /\ pc' = "write"
                 /\ UNCHANGED <<exitCode, raised>>
  /\ UNCHANGED <<runVars, git, probeVars, pathVars, fsVars, now>>

\* lines 116-118, then sys.exit(0) of line 161
InstallOnly ==
  /\ pc = "install_only"
  /\ \E rc \in {0, 1} : RunInstall(rc, "hooks-installed")
  /\ UNCHANGED <<runVars, git, probeVars, pathVars, fsVars, now>>

\* lines 124-133, then sys.exit(0) of line 161
Install ==
  /\ pc = "install"
  /\ \E rc \in {0, 1} : RunInstall(rc, "setup-complete")
  /\ UNCHANGED <<runVars, git, probeVars, pathVars, fsVars, now>>

\* the process is stopped between two steps of the writer
Interrupt ==
  /\ pc \in {"move", "write", "install", "install_only"}
  /\ Exit(130, "KeyboardInterrupt")
  /\ UNCHANGED <<runVars, git, probeVars, pathVars, fsVars, now, effects, out,
                 install_rc>>

Next ==
  \/ Invoke
  \/ Tick
  \/ MainCheckInRepo
  \/ MainCheckCommands
  \/ DryRun
  \/ SetupBranch
  \/ Move
  \/ Write
  \/ InstallOnly
  \/ Install
  \/ Interrupt

Spec == Init /\ [][Next]_vars

\* ------------------------------------------------------------ properties
\* the text contains "id: gitleaks"
HasIdGitleaks(text) ==
  \E l \in 1..Len(text) :
    \E i \in 1..(Len(text[l]) - 1) :
      /\ text[l][i] = <<"id:">>
      /\ Len(text[l][i + 1]) >= 1
      /\ text[l][i + 1][1] = "gitleaks"

\* the text contains "rev: v<version>"
HasRev(text, version) ==
  \E l \in 1..Len(text) :
    \E i \in 1..(Len(text[l]) - 1) :
      /\ text[l][i] = <<"rev:">>
      /\ text[l][i + 1] = <<"v">> \o version

IsPrefix(s, t) ==
  /\ Len(s) <= Len(t)
  /\ \A i \in 1..Len(s) : s[i] = t[i]

Count(s, x) ==
  Cardinality({i \in 1..Len(s) : s[i] = x})

\* the run entered config_secscan
ReachedWriter ==
  backup_path # <<>>

\* the working directory is the top level of the repository: /repo and
\* /link name the top level, /repo/sub lies below it
AtTopLevel ==
  git.rc = 0 /\ cwd = <<"/repo">>

NoFileChange ==
  cfg = cfg0 /\ backups = backups0

\* C1: a --dry-run invocation writes nothing, renames nothing and never
\* invokes "pre-commit install": at every point of the run, the exit-1 paths
\* included, the configuration file and the backup files are those the run
\* started with.
C1_DryRunNoEffect ==
  (runs > 0 /\ mode = "dry-run") =>
    /\ NoFileChange
    /\ effects = <<>>
    /\ install_rc = -1

\* a completed simulation over an existing file without the hook
C1_Witness ==
  /\ pc = "exit"
  /\ mode = "dry-run"
  /\ exitCode = 0
  /\ cfg.exists
  /\ ~HasIdGitleaks(cfg.text)
  /\ out = <<"dry:would-move", "dry:would-write", "dry:would-install">>

\* C2: when --setup finds a file without "id: gitleaks" and the rename and
\* the write have completed, the backup made by the run holds the original
\* content verbatim and the new file contains "id: gitleaks" and
\* "rev: v<V>", V being the gitleaks version the probe returned in that run.
C2_BackupCorrect ==
  ( /\ mode = "setup"
    /\ cfg0.exists
    /\ ~HasIdGitleaks(cfg0.text)
    /\ Len(effects) >= 2
    /\ effects[1] = "rename"
    /\ effects[2] = "write" ) =>
    /\ backup_path \in DOMAIN backups
    /\ backups[backup_path] = cfg0.text
    /\ cfg.exists
    /\ HasIdGitleaks(cfg.text)
    /\ HasRev(cfg.text, commands_status.gitleaks.version)

\* a successful run that backed up a file holding other hooks, with the
\* version printed as "v9"
C2_Witness ==
  /\ pc = "exit"
  /\ mode = "setup"
  /\ exitCode = 0
  /\ cfg0 = File(OtherHooks)
  /\ effects = <<"rename", "write", "install">>
  /\ env.gitleaks.stdout = <<"v", "9", "\n">>
  /\ HasRev(cfg.text, <<"9">>)

\* C3 (as claimed): after every --setup run that exits 0 the file declares
\* the gitleaks hook pinned to the version detected in that run.
C3_PinnedToDetected ==
  (pc = "exit" /\ mode = "setup" /\ exitCode = 0) =>
    /\ cfg.exists
    /\ HasIdGitleaks(cfg.text)
    /\ HasRev(cfg.text, commands_status.gitleaks.version)

\* C4: a --setup run over a file that contains "id: gitleaks" changes no
\* file (no rename, no write, no backup) and, when it is not cut short,
\* invokes "pre-commit install" exactly once; a successful --setup always
\* leaves a file that contains "id: gitleaks", so the next --setup changes
\* no file.
C4_AlreadyConfiguredNoMutation ==
  /\ (runs > 0 /\ mode = "setup" /\ cfg0.exists /\ HasIdGitleaks(cfg0.text)) =>
       /\ NoFileChange
       /\ effects \in {<<>>, <<"install">>}
       /\ (pc = "exit" /\ ReachedWriter /\ exitCode \in {0, 1}) =>
            effects = <<"install">>
  /\ (pc = "exit" /\ mode = "setup" /\ exitCode = 0) =>
       (cfg.exists /\ HasIdGitleaks(cfg.text))

\* a second --setup over the file an earlier --setup wrote
C4_Witness ==
  /\ pc = "exit"
  /\ mode = "setup"
  /\ exitCode = 0
  /\ runs >= 2
  /\ cfg0 = File(pre_commit_config(<<"9">>))
  /\ cfg = cfg0
  /\ effects = <<"install">>

\* C5: the writer is entered only after the environment check succeeded and
\* both tools were reported installed; outside the top level the run exits
\* with 1 before any probe; with a tool absent or its version command
\* failing it exits with 1; in both cases nothing is written, renamed or
\* installed.  A run that enters the writer and completes exits with 0.
C5_ExitCodes ==
  /\ (ReachedWriter \/ pc \in {"config_secscan", "move", "write", "install",
                               "install_only"}) =>
       /\ AtTopLevel
       /\ probed
       /\ commands_status.gitleaks.status
       /\ commands_status.precommit.status
       /\ env.gitleaks.which /\ env.gitleaks.rc = 0
       /\ env.precommit.which /\ env.precommit.rc = 0
  /\ (pc = "exit" /\ ~AtTopLevel) =>
       /\ exitCode = 1
       /\ ~probed
       /\ NoFileChange /\ effects = <<>> /\ install_rc = -1
  /\ ( /\ pc = "exit"
       /\ probed
       /\ \/ ~env.gitleaks.which
          \/ ~env.precommit.which
          \/ env.gitleaks.rc # 0
          \/ env.precommit.rc # 0 ) =>
       /\ exitCode = 1
       /\ NoFileChange /\ effects = <<>> /\ install_rc = -1
  /\ (pc = "exit" /\ ReachedWriter /\ raised = "") => exitCode = 0

\* a run stopped by the tool check although gitleaks is usable
C5_Witness ==
  /\ pc = "exit"
  /\ exitCode = 1
  /\ AtTopLevel
  /\ probed
  /\ env.gitleaks.which /\ env.gitleaks.rc = 0
  /\ ~env.precommit.which
  /\ out = <<"missing-tools">>

\* what the claim C6 says check_commands returns
C6_Truthful(t, version) ==
  IF t.which /\ t.rc = 0
    THEN [status |-> TRUE, version |-> version]
    ELSE [status |-> FALSE, version |-> <<>>]

C6_Reference(e) ==
  IF ~e.gitleaks.which
    THEN [gitleaks |-> [status |-> FALSE, version |-> <<>>],
          precommit |-> [status |-> FALSE, version |-> <<>>]]
    ELSE [gitleaks |->
            C6_Truthful(e.gitleaks, RemovePrefixV(SplitWs(Strip(e.gitleaks.stdout))[1])),
          precommit |->
            C6_Truthful(e.precommit, SplitSp(Strip(e.precommit.stdout))[2])]

\* C6 (as claimed): check_commands reports both tools missing when gitleaks
\* is absent, and otherwise reports each tool independently and truthfully;
\* with gitleaks usable and only pre-commit absent, gitleaks is reported
\* installed with its version.
C6_ProbeMatchesReference ==
  (probed /\ raised = "") => commands_status = C6_Reference(env)

\* C7: when "pre-commit install" returns non-zero during --setup the run
\* fails (non-zero exit, a single invocation, no success message) and the
\* configuration file is what it was just before the invocation: the fresh
\* content in the write branches, the existing content otherwise.
C7_InstallFailure ==
  (mode = "setup" /\ install_rc > 0) =>
    /\ pc = "exit"
    /\ exitCode # 0
    /\ Count(effects, "install") = 1
    /\ \A i \in 1..Len(out) : out[i] \notin {"setup-complete", "hooks-installed"}
    /\ cfg.exists
    /\ IF cfg0.exists /\ HasIdGitleaks(cfg0.text)
         THEN cfg = cfg0
         ELSE cfg.text = pre_commit_config(commands_status.gitleaks.version)

\* install failed right after a fresh file replaced one without the hook
C7_Witness ==
  /\ pc = "exit"
  /\ mode = "setup"
  /\ install_rc = 1
  /\ effects = <<"rename", "write", "install">>
  /\ raised = "CalledProcessError"

\* C8: starting without a backup file, whatever --setup and --dry-run runs
\* follow (failing installs and stops between rename and write included),
\* there is at most one backup file.
C8_AtMostOneBackup ==
  Cardinality(DOMAIN backups) <= 1

\* a later --setup, at a later second, next to the backup of an earlier run
C8_Witness ==
  /\ pc = "exit"
  /\ mode = "setup"
  /\ exitCode = 0
  /\ runs >= 2
  /\ Cardinality(DOMAIN backups) = 1
  /\ backup_path \notin DOMAIN backups

\* C9 (as claimed): the backup path is .pre-commit-config.yaml-<T> in the
\* repository root, T being the UTC time of the run as YYYYMMDDThhmmssZ,
\* whatever the offset between the local clock and UTC.
C9_BackupPathIsUtc ==
  ReachedWriter =>
    backup_path = <<(<<"/repo">>), ".pre-commit-config.yaml-", strftime(t_utc)>>

\* the side effects a --setup run is to perform, given the file it found
C10_Expected(f) ==
  IF f.exists
    THEN IF HasIdGitleaks(f.text)
           THEN <<"install">>
           ELSE <<"rename", "write", "install">>
    ELSE <<"write", "install">>

\* C10: the side effects of a --setup run are a prefix of [install] (file
\* with the hook), [write, install] (no file) or [rename, write, install]
\* (file without the hook); a run stopped between rename and write leaves
\* the backup and no configuration file.
C10_EffectOrder ==
  (runs > 0 /\ mode = "setup") =>
    /\ IsPrefix(effects, C10_Expected(cfg0))
    /\ effects = <<"rename">> =>
         /\ ~cfg.exists
         /\ backup_path \in DOMAIN backups
         /\ backups[backup_path] = cfg0.text

\* a run stopped between the rename and the write
C10_Witness ==
  /\ pc = "exit"
  /\ mode = "setup"
  /\ exitCode = 130
  /\ effects = <<"rename">>
  /\ ~cfg.exists

====
